---- MODULE Spec2Model ----
(***************************************************************************)
(* depart_mental: the data layer of the personnel/department roster        *)
(* manager (ProgramData, Person, Department).                              *)
(*                                                                         *)
(* Rc<RefCell<Department>> and Rc<RefCell<Person>> cells are modelled as   *)
(* two heaps (deptCell, personCell); a handle is the index of a cell, so   *)
(* Rc::ptr_eq is equality of handles.  Strings (aliases, names) are        *)
(* modelled by natural numbers whose order is the strings' lexicographic   *)
(* order; dates are natural numbers.  Option::None is the number 0.        *)
(* A panic ends the process: result.tag = "Panic" and no operation is      *)
(* enabled any more; the data is what it was when the panic was raised.    *)
(***************************************************************************)
EXTENDS Integers, Sequences, FiniteSets, TLC

\* ------------------------------------------------------------------ bounds
\* number of Department cells that may be allocated (and of department aliases)
MaxDepts == 2
\* number of Person cells that may be allocated (and of person aliases)
MaxPeople == 3
\* longest dept_history a person may reach
MaxHistory == 3
\* people in the store when hire dates and middle names vary (SpecWide)
MaxPeopleWide == 2
\* departments in the store when only departments are created (SpecDepts)
MaxDeptsAlone == 4

None == 0
DeptAliasSet == 1..MaxDepts
DeptAliasSetAlone == 1..MaxDeptsAlone
PersonAliasSet == 1..MaxPeople
\* the strings and dates the callers supply
DeptNames == {1}
\* (last, first) names: two that share the last name, one with another last name
Names == {<<1, 1>>, <<1, 2>>, <<2, 1>>}
MiddleNames == {None}
HireDates == {1}
Dates == {1, 2}
\* what Local::today() answers
Today == {2}
\* the wider inputs of SpecWide
MiddleNamesWide == {None, 1}
HireDatesWide == {1, 2}
\* depth after which the mutually recursive PartialEq impls overflow the stack
EqFuel == 6

VARIABLES
    dept_aliases,       \* Vec<DepartmentAlias>: [alias, pointer]
    person_aliases,     \* Vec<PersonAlias>: [alias, pointer]
    departments,        \* HashMap<String, Rc<RefCell<Department>>>
    personnel,          \* HashMap<String, Rc<RefCell<Person>>>
    employee_count,     \* u32; at most MaxPeople here, far from wrapping
    department_count,   \* u32; at most MaxDepts here, far from wrapping
    deptCell,           \* heap of Department {name, id, employees}
    personCell,         \* heap of Person {name, date_of_hire, department, dept_history}
    call,               \* the last call made: [op, alias, dept_alias, self, new, date]
    result,             \* what that call returned, or the panic that ended it
    pre                 \* the two heaps as they were before the last call, when that
                        \* call was a transfer that returned Ok (set), the Department
                        \* heap as it was between its removal and its insertion (mid),
                        \* and whether the call before it was such a transfer of the
                        \* same person (chained)

vars == <<dept_aliases, person_aliases, departments, personnel, employee_count,
          department_count, deptCell, personCell, call, result, pre>>

\* ------------------------------------------------------------ sequences
\* Vec::insert(i, x), i counted from 0
Insert(s, i, x) == SubSeq(s, 1, i) \o <<x>> \o SubSeq(s, i + 1, Len(s))
\* Vec::remove(i), i counted from 0
RemoveAt(s, i) == SubSeq(s, 1, i) \o SubSeq(s, i + 2, Len(s))
\* mutant of MapInsert: the entry is not inserted
MapInsert_lost(m, k, v) == m

\* HashMap::insert
MapInsert(m, k, v) == [x \in (DOMAIN m) \cup {k} |-> IF x = k THEN v ELSE m[x]]

\* ------------------------------------------------------------ orderings
\* String::cmp on the tokens that stand for strings
StrCmp(a, b) == IF a < b THEN "Less" ELSE IF a > b THEN "Greater" ELSE "Equal"

\* impl Ord for Name: last name, then first name; the middle name is not read
NameCmp(self, other) ==
    IF self.last # other.last
    THEN StrCmp(self.last, other.last)
    ELSE StrCmp(self.first, other.first)

\* impl Ord for Person
PersonCmp(self, other) == NameCmp(self.name, other.name)

\* impl Ord for DepartmentAlias
DepartmentAliasCmp(self, other) == StrCmp(self.alias, other.alias)

\* slice::binary_search_by over cmps, the closure's answer for each element
\* ("Panic" where evaluating the closure on that element panics); only the
\* probed elements are read.  Indices are counted from 0 as in the code.
RECURSIVE binary_search_by(_, _, _)
binary_search_by(cmps, left, right) ==
    IF left >= right
    THEN [tag |-> "Err", index |-> left]
    ELSE LET mid == left + ((right - left) \div 2)
             c == cmps[mid + 1]
         IN  IF c = "Panic" THEN [tag |-> "Panic", index |-> mid]
             ELSE IF c = "Less" THEN binary_search_by(cmps, mid + 1, right)
             ELSE IF c = "Greater" THEN binary_search_by(cmps, left, mid)
             ELSE [tag |-> "Ok", index |-> mid]

\* ------------------------------------------------------------- equality
\* The PartialEq impls answer "eq" or "ne", or the panic they end in:
\* "BorrowError" when a RefCell that is mutably borrowed has to be borrowed
\* (borrowed: the handles of the Person cells held by a RefMut),
\* "StackOverflow" when the recursion through the cyclic person/department
\* structure does not end (fuel = 0).

\* derived PartialEq for Name: last, middle, first
NameEq(self, other) ==
    self.last = other.last /\ self.middle = other.middle /\ self.first = other.first

RECURSIVE DepartmentEq(_, _, _, _), EmployeesEq(_, _, _, _, _), PersonEq(_, _, _, _),
          HistoryEq(_, _, _, _, _)

\* mutant of DepartmentEq: the rosters are compared cell by cell through
\* RefCell::eq, with no answer by pointer, so every entry is borrowed
DepartmentEq_deep(a, b, borrowed, fuel) ==
    IF deptCell[a].name # deptCell[b].name THEN "ne"
    ELSE IF deptCell[a].id # deptCell[b].id THEN "ne"
    ELSE IF Len(deptCell[a].employees) # Len(deptCell[b].employees) THEN "ne"
    ELSE IF \E i \in 1..Len(deptCell[a].employees) :
                deptCell[a].employees[i] \in borrowed \/ deptCell[b].employees[i] \in borrowed
    THEN "BorrowError"
    ELSE EmployeesEq(deptCell[a].employees, deptCell[b].employees, 1, borrowed, fuel)

\* mutant of DepartmentEq: the id is not compared
DepartmentEq_noid(a, b, borrowed, fuel) ==
    IF deptCell[a].name # deptCell[b].name THEN "ne"
    ELSE IF Len(deptCell[a].employees) # Len(deptCell[b].employees) THEN "ne"
    ELSE EmployeesEq(deptCell[a].employees, deptCell[b].employees, 1, borrowed, fuel)

\* derived PartialEq for Department on the cells a and b: name, id, employees,
\* in that order, stopping at the first field that differs
DepartmentEq(a, b, borrowed, fuel) ==
    IF deptCell[a].name # deptCell[b].name THEN "ne"
    ELSE IF deptCell[a].id # deptCell[b].id THEN "ne"
    ELSE IF Len(deptCell[a].employees) # Len(deptCell[b].employees) THEN "ne"
    ELSE EmployeesEq(deptCell[a].employees, deptCell[b].employees, 1, borrowed, fuel)

\* Vec<Rc<RefCell<Person>>> == : element by element from index i; Rc<T: Eq>
\* answers by pointer first, then RefCell::eq borrows both cells
EmployeesEq(e1, e2, i, borrowed, fuel) ==
    IF i > Len(e1) THEN "eq"
    ELSE LET r == IF e1[i] = e2[i] THEN "eq"
                  ELSE IF e1[i] \in borrowed \/ e2[i] \in borrowed THEN "BorrowError"
                  ELSE PersonEq(e1[i], e2[i], borrowed, fuel)
         IN  IF r = "eq" THEN EmployeesEq(e1, e2, i + 1, borrowed, fuel) ELSE r

\* impl PartialEq for Person on the cells p and q: name, date_of_hire,
\* department (by value), dept_history
PersonEq(p, q, borrowed, fuel) ==
    IF fuel = 0 THEN "StackOverflow"
    ELSE IF ~NameEq(personCell[p].name, personCell[q].name) THEN "ne"
    ELSE IF personCell[p].date_of_hire # personCell[q].date_of_hire THEN "ne"
    ELSE LET d == DepartmentEq(personCell[p].department, personCell[q].department,
                               borrowed, fuel - 1)
         IN  IF d # "eq" THEN d
             ELSE IF Len(personCell[p].dept_history) # Len(personCell[q].dept_history)
             THEN "ne"
             ELSE HistoryEq(personCell[p].dept_history, personCell[q].dept_history, 1,
                            borrowed, fuel - 1)

\* Vec<DeptEntry> == with the derived PartialEq for DeptEntry: department, date
HistoryEq(h1, h2, i, borrowed, fuel) ==
    IF i > Len(h1) THEN "eq"
    ELSE LET d == IF h1[i].department = h2[i].department THEN "eq"
                  ELSE DepartmentEq(h1[i].department, h2[i].department, borrowed, fuel)
         IN  IF d # "eq" THEN d
             ELSE IF h1[i].date # h2[i].date THEN "ne"
             ELSE HistoryEq(h1, h2, i + 1, borrowed, fuel)

\* ----------------------------------------------------------- Department
\* Department::new
DepartmentNew(name, id) == [name |-> name, id |-> id, employees |-> <<>>]

\* Department::remove_employee(&mut self, employee: &Person) on the roster
\* `employees`; cell is the Person heap.  The closure borrows each probed
\* roster entry: a probe of a mutably borrowed cell panics (BorrowError).
remove_employee(employees, employee, cell, borrowed) ==
    LET cmps == [i \in 1..Len(employees) |->
                    IF employees[i] \in borrowed THEN "Panic"
                    ELSE PersonCmp(cell[employees[i]], employee)]
        index == binary_search_by(cmps, 0, Len(employees))
    IN  IF index.tag = "Panic"
        THEN [tag |-> "Panic", employees |-> employees, removed |-> None]
        ELSE IF index.tag = "Ok"
        THEN [tag |-> "Ok", employees |-> RemoveAt(employees, index.index),
              removed |-> employees[index.index + 1]]
        ELSE [tag |-> "Err", employees |-> employees, removed |-> None]

\* mutant of add_employee: answers Ok without inserting the employee
add_employee_lost(employees, employee, cell, borrowed) ==
    [tag |-> "Ok", employees |-> employees]

\* mutant of add_employee: inserts at the front, not at the index found
add_employee_front(employees, employee, cell, borrowed) ==
    LET cmps == [i \in 1..Len(employees) |->
                    IF employees[i] \in borrowed \/ employee \in borrowed THEN "Panic"
                    ELSE PersonCmp(cell[employees[i]], cell[employee])]
        index == binary_search_by(cmps, 0, Len(employees))
    IN  IF index.tag = "Panic" THEN [tag |-> "Panic", employees |-> employees]
        ELSE IF index.tag = "Ok" THEN [tag |-> "Err", employees |-> employees]
        ELSE [tag |-> "Ok", employees |-> Insert(employees, 0, employee)]

\* mutant of add_employee: pushes at the end, not at the index found
add_employee_push(employees, employee, cell, borrowed) ==
    LET cmps == [i \in 1..Len(employees) |->
                    IF employees[i] \in borrowed \/ employee \in borrowed THEN "Panic"
                    ELSE PersonCmp(cell[employees[i]], cell[employee])]
        index == binary_search_by(cmps, 0, Len(employees))
    IN  IF index.tag = "Panic" THEN [tag |-> "Panic", employees |-> employees]
        ELSE IF index.tag = "Ok" THEN [tag |-> "Err", employees |-> employees]
        ELSE [tag |-> "Ok", employees |-> Append(employees, employee)]

\* mutant of add_employee: a push left in front of the sorted insert, so the
\* employee enters the roster twice
add_employee_twice(employees, employee, cell, borrowed) ==
    LET cmps == [i \in 1..Len(employees) |->
                    IF employees[i] \in borrowed \/ employee \in borrowed THEN "Panic"
                    ELSE PersonCmp(cell[employees[i]], cell[employee])]
        index == binary_search_by(cmps, 0, Len(employees))
    IN  IF index.tag = "Panic" THEN [tag |-> "Panic", employees |-> employees]
        ELSE IF index.tag = "Ok" THEN [tag |-> "Err", employees |-> employees]
        ELSE [tag |-> "Ok",
              employees |-> Insert(Append(employees, employee), index.index, employee)]

\* Department::add_employee(&mut self, employee: Rc<RefCell<Person>>): the
\* closure borrows the probed entry and the employee on every probe.
add_employee(employees, employee, cell, borrowed) ==
    LET cmps == [i \in 1..Len(employees) |->
                    IF employees[i] \in borrowed \/ employee \in borrowed THEN "Panic"
                    ELSE PersonCmp(cell[employees[i]], cell[employee])]
        index == binary_search_by(cmps, 0, Len(employees))
    IN  IF index.tag = "Panic" THEN [tag |-> "Panic", employees |-> employees]
        ELSE IF index.tag = "Ok" THEN [tag |-> "Err", employees |-> employees]
        ELSE [tag |-> "Ok", employees |-> Insert(employees, index.index, employee)]

\* --------------------------------------------------------------- Person
\* mutant of build: a builder without a middle name is refused too
build_needs_middle(b) ==
    IF b.name_first = None \/ b.name_last = None \/ b.name_mid = None
       \/ b.doh = None \/ b.dept = None
    THEN [tag |-> "Err", person |-> None]
    ELSE [tag |-> "Ok",
          person |-> [name |-> [last |-> b.name_last, middle |-> b.name_mid,
                                first |-> b.name_first],
                      date_of_hire |-> b.doh,
                      department |-> b.dept,
                      dept_history |-> <<[department |-> b.dept, date |-> b.doh]>>]]

\* PersonBuilder::build on a builder b = [name_first, name_last, name_mid, doh,
\* dept], each field None or set
build(b) ==
    IF b.name_first = None \/ b.name_last = None \/ b.doh = None \/ b.dept = None
    THEN [tag |-> "Err", person |-> None]
    ELSE [tag |-> "Ok",
          person |-> [name |-> [last |-> b.name_last, middle |-> b.name_mid,
                                first |-> b.name_first],
                      date_of_hire |-> b.doh,
                      department |-> b.dept,
                      dept_history |-> <<[department |-> b.dept, date |-> b.doh]>>]]

\* mutant of transfer: the history is set to the new entry, not extended by it
transfer_overwrite(p, department, date) ==
    LET self == personCell[p]
        old == self.department
        same == DepartmentEq(old, department, {p}, EqFuel)
        entry == [department |-> department, date |-> date]
        removal == remove_employee(deptCell[old].employees, self, personCell, {p})
        cells1 == [deptCell EXCEPT ![old].employees = removal.employees]
        adding == add_employee(cells1[entry.department].employees, removal.removed,
                               personCell, {p})
        cells2 == [cells1 EXCEPT ![entry.department].employees = adding.employees]
    IN  IF same = "eq"
        THEN [tag |-> "Err", err |-> "Person(Transfer(AlreadyInDept))",
              mid |-> deptCell, deptCell |-> deptCell, person |-> self]
        ELSE IF same # "ne"
        THEN [tag |-> "Panic", err |-> same, mid |-> deptCell, deptCell |-> deptCell,
              person |-> self]
        ELSE IF removal.tag = "Panic"
        THEN [tag |-> "Panic", err |-> "BorrowError", mid |-> deptCell,
              deptCell |-> deptCell, person |-> self]
        ELSE IF removal.tag = "Err"
        THEN [tag |-> "Panic", err |-> "NotListedInDept", mid |-> deptCell,
              deptCell |-> deptCell, person |-> self]
        ELSE IF adding.tag = "Panic"
        THEN [tag |-> "Panic", err |-> "BorrowError", mid |-> cells1, deptCell |-> cells1,
              person |-> self]
        ELSE IF adding.tag = "Err"
        THEN [tag |-> "Panic", err |-> "AlreadyInDept", mid |-> cells1, deptCell |-> cells1,
              person |-> self]
        ELSE [tag |-> "Ok", err |-> "", mid |-> cells1, deptCell |-> cells2,
              person |-> [self EXCEPT !.department = entry.department,
                                      !.dept_history = <<entry>>]]

\* mutant of transfer: the entry is inserted into the new roster before it is
\* removed from the old one
transfer_insert_first(p, department, date) ==
    LET self == personCell[p]
        old == self.department
        same == DepartmentEq(old, department, {p}, EqFuel)
        entry == [department |-> department, date |-> date]
        removal == remove_employee(deptCell[old].employees, self, personCell, {p})
        adding == add_employee(deptCell[entry.department].employees, removal.removed,
                               personCell, {p})
        cells1 == [deptCell EXCEPT ![entry.department].employees = adding.employees]
        cells2 == [cells1 EXCEPT ![old].employees = removal.employees]
    IN  IF same = "eq"
        THEN [tag |-> "Err", err |-> "Person(Transfer(AlreadyInDept))",
              mid |-> deptCell, deptCell |-> deptCell, person |-> self]
        ELSE IF same # "ne"
        THEN [tag |-> "Panic", err |-> same, mid |-> deptCell, deptCell |-> deptCell,
              person |-> self]
        ELSE IF removal.tag = "Panic"
        THEN [tag |-> "Panic", err |-> "BorrowError", mid |-> deptCell,
              deptCell |-> deptCell, person |-> self]
        ELSE IF removal.tag = "Err"
        THEN [tag |-> "Panic", err |-> "NotListedInDept", mid |-> deptCell,
              deptCell |-> deptCell, person |-> self]
        ELSE IF adding.tag = "Panic"
        THEN [tag |-> "Panic", err |-> "BorrowError", mid |-> deptCell,
              deptCell |-> deptCell, person |-> self]
        ELSE IF adding.tag = "Err"
        THEN [tag |-> "Panic", err |-> "AlreadyInDept", mid |-> deptCell,
              deptCell |-> deptCell, person |-> self]
        ELSE [tag |-> "Ok", err |-> "", mid |-> cells1, deptCell |-> cells2,
              person |-> [self EXCEPT !.department = entry.department,
                                      !.dept_history = Append(@, entry)]]

\* mutant of transfer: the history is extended but the pointer is not updated
transfer_keeps_pointer(p, department, date) ==
    LET self == personCell[p]
        old == self.department
        same == DepartmentEq(old, department, {p}, EqFuel)
        entry == [department |-> department, date |-> date]
        removal == remove_employee(deptCell[old].employees, self, personCell, {p})
        cells1 == [deptCell EXCEPT ![old].employees = removal.employees]
        adding == add_employee(cells1[entry.department].employees, removal.removed,
                               personCell, {p})
        cells2 == [cells1 EXCEPT ![entry.department].employees = adding.employees]
    IN  IF same = "eq"
        THEN [tag |-> "Err", err |-> "Person(Transfer(AlreadyInDept))",
              mid |-> deptCell, deptCell |-> deptCell, person |-> self]
        ELSE IF same # "ne"
        THEN [tag |-> "Panic", err |-> same, mid |-> deptCell, deptCell |-> deptCell,
              person |-> self]
        ELSE IF removal.tag = "Panic"
        THEN [tag |-> "Panic", err |-> "BorrowError", mid |-> deptCell,
              deptCell |-> deptCell, person |-> self]
        ELSE IF removal.tag = "Err"
        THEN [tag |-> "Panic", err |-> "NotListedInDept", mid |-> deptCell,
              deptCell |-> deptCell, person |-> self]
        ELSE IF adding.tag = "Panic"
        THEN [tag |-> "Panic", err |-> "BorrowError", mid |-> cells1, deptCell |-> cells1,
              person |-> self]
        ELSE IF adding.tag = "Err"
        THEN [tag |-> "Panic", err |-> "AlreadyInDept", mid |-> cells1, deptCell |-> cells1,
              person |-> self]
        ELSE [tag |-> "Ok", err |-> "", mid |-> cells1, deptCell |-> cells2,
              person |-> [self EXCEPT !.dept_history = Append(@, entry)]]

\* Person::transfer(&mut self, department, date) for the Person cell p, which
\* the caller holds mutably borrowed.  Answers the outcome, the Department
\* heap and the Person as they are when the call returns or panics, and the
\* Department heap as it is between the removal and the insertion (mid; the
\* heap the call found, when it ends before the removal).
transfer(p, department, date) ==
    LET self == personCell[p]
        old == self.department
        same == DepartmentEq(old, department, {p}, EqFuel)
        entry == [department |-> department, date |-> date]
        removal == remove_employee(deptCell[old].employees, self, personCell, {p})
        cells1 == [deptCell EXCEPT ![old].employees = removal.employees]
        adding == add_employee(cells1[entry.department].employees, removal.removed,
                               personCell, {p})
        cells2 == [cells1 EXCEPT ![entry.department].employees = adding.employees]
    IN  IF same = "eq"
        THEN [tag |-> "Err", err |-> "Person(Transfer(AlreadyInDept))",
              mid |-> deptCell, deptCell |-> deptCell, person |-> self]
        ELSE IF same # "ne"
        THEN [tag |-> "Panic", err |-> same, mid |-> deptCell, deptCell |-> deptCell,
              person |-> self]
        ELSE IF removal.tag = "Panic"
        THEN [tag |-> "Panic", err |-> "BorrowError", mid |-> deptCell,
              deptCell |-> deptCell, person |-> self]
        ELSE IF removal.tag = "Err"
        THEN [tag |-> "Panic", err |-> "NotListedInDept", mid |-> deptCell,
              deptCell |-> deptCell, person |-> self]
        ELSE IF adding.tag = "Panic"
        THEN [tag |-> "Panic", err |-> "BorrowError", mid |-> cells1, deptCell |-> cells1,
              person |-> self]
        ELSE IF adding.tag = "Err"
        THEN [tag |-> "Panic", err |-> "AlreadyInDept", mid |-> cells1, deptCell |-> cells1,
              person |-> self]
        ELSE [tag |-> "Ok", err |-> "", mid |-> cells1, deptCell |-> cells2,
              person |-> [self EXCEPT !.department = entry.department,
                                      !.dept_history = Append(@, entry)]]

\* ---------------------------------------------------------- ProgramData
Ok == [tag |-> "Ok", err |-> ""]
Err(e) == [tag |-> "Err", err |-> e]
\* the process is alive: no call has panicked
Running == result.tag # "Panic"

\* the record of a call: the operation, the person alias and the department
\* alias it was given, the Person cell it is about (self), the Department
\* cell it targets (new) and the date it records; a field that plays no part
\* in the call's outcome is None.  A call of PersonBuilder::build records the
\* builder and the Person it returned, every other call None for both.
Call(op, alias, dept_alias, self, new, date) ==
    [op |-> op, alias |-> alias, dept_alias |-> dept_alias,
     self |-> self, new |-> new, date |-> date, builder |-> None, built |-> None]

NoPre ==
    [set |-> FALSE, deptCell |-> <<>>, personCell |-> <<>>, mid |-> <<>>,
     chained |-> FALSE]

\* ProgramData::init
Init ==
    /\ dept_aliases = <<>>
    /\ person_aliases = <<>>
    /\ departments = <<>>
    /\ personnel = <<>>
    /\ employee_count = 0
    /\ department_count = 0
    /\ deptCell = <<>>
    /\ personCell = <<>>
    /\ call = Call("init", None, None, None, None, None)
    /\ result = Ok
    /\ pre = NoPre

\* mutant of add_dept: the alias is pushed onto the index, as in the line the
\* code has commented out, not inserted at the index found
add_dept_push(alias, dept_name) ==
    /\ Running
    /\ pre' = NoPre
    /\ UNCHANGED <<person_aliases, personnel, employee_count, personCell>>
    /\ IF alias \in DOMAIN departments
       THEN /\ call' = Call("add_dept", None, alias, None, None, None)
            /\ result' = Err("AddDept")
            /\ UNCHANGED <<dept_aliases, departments, department_count, deptCell>>
       ELSE /\ department_count' = department_count + 1
            /\ LET new_department == Len(deptCell) + 1
                   dept_alias == [alias |-> alias, pointer |-> new_department]
               IN  /\ dept_aliases' = Append(dept_aliases, dept_alias)
                   /\ departments' = MapInsert(departments, alias, new_department)
                   /\ deptCell' =
                          Append(deptCell, DepartmentNew(dept_name, department_count'))
                   /\ call' = Call("add_dept", None, alias, None, new_department, None)
                   /\ result' = Ok

\* mutant of add_dept: no contains_key check before the count is incremented;
\* a duplicate is left to the search of the index
add_dept_unchecked(alias, dept_name) ==
    /\ Running
    /\ pre' = NoPre
    /\ UNCHANGED <<person_aliases, personnel, employee_count, personCell>>
    /\ department_count' = department_count + 1
    /\ LET new_department == Len(deptCell) + 1
           dept_alias == [alias |-> alias, pointer |-> new_department]
           cmps == [i \in 1..Len(dept_aliases) |->
                       DepartmentAliasCmp(dept_aliases[i], dept_alias)]
           insertion_index == binary_search_by(cmps, 0, Len(dept_aliases))
       IN  IF insertion_index.tag = "Err"
           THEN /\ dept_aliases' =
                       Insert(dept_aliases, insertion_index.index, dept_alias)
                /\ departments' = MapInsert(departments, alias, new_department)
                /\ deptCell' =
                       Append(deptCell, DepartmentNew(dept_name, department_count'))
                /\ call' = Call("add_dept", None, alias, None, new_department, None)
                /\ result' = Ok
           ELSE /\ call' = Call("add_dept", None, alias, None, None, None)
                /\ result' = Err("AddDept")
                /\ UNCHANGED <<dept_aliases, departments, deptCell>>

\* mutant of add_dept: the count is incremented before the contains_key check
add_dept_count_first(alias, dept_name) ==
    /\ Running
    /\ pre' = NoPre
    /\ UNCHANGED <<person_aliases, personnel, employee_count, personCell>>
    /\ department_count' = department_count + 1
    /\ IF alias \in DOMAIN departments
       THEN /\ call' = Call("add_dept", None, alias, None, None, None)
            /\ result' = Err("AddDept")
            /\ UNCHANGED <<dept_aliases, departments, deptCell>>
       ELSE LET new_department == Len(deptCell) + 1
                dept_alias == [alias |-> alias, pointer |-> new_department]
                cmps == [i \in 1..Len(dept_aliases) |->
                            DepartmentAliasCmp(dept_aliases[i], dept_alias)]
                insertion_index == binary_search_by(cmps, 0, Len(dept_aliases))
            IN  IF insertion_index.tag = "Err"
                THEN /\ dept_aliases' =
                            Insert(dept_aliases, insertion_index.index, dept_alias)
                     /\ departments' = MapInsert(departments, alias, new_department)
                     /\ deptCell' =
                            Append(deptCell, DepartmentNew(dept_name, department_count'))
                     /\ call' = Call("add_dept", None, alias, None, new_department, None)
                     /\ result' = Ok
                ELSE /\ call' = Call("add_dept", None, alias, None, None, None)
                     /\ result' = Err("AddDept")
                     /\ UNCHANGED <<dept_aliases, departments, deptCell>>

\* mutant of add_dept: the employee count is incremented, not the department
\* count
add_dept_wrong_counter(alias, dept_name) ==
    /\ Running
    /\ pre' = NoPre
    /\ UNCHANGED <<person_aliases, personnel, personCell>>
    /\ IF alias \in DOMAIN departments
       THEN /\ call' = Call("add_dept", None, alias, None, None, None)
            /\ result' = Err("AddDept")
            /\ UNCHANGED <<dept_aliases, departments, department_count, deptCell,
                           employee_count>>
       ELSE /\ employee_count' = employee_count + 1
            /\ UNCHANGED department_count
            /\ LET new_department == Len(deptCell) + 1
                   dept_alias == [alias |-> alias, pointer |-> new_department]
                   cmps == [i \in 1..Len(dept_aliases) |->
                               DepartmentAliasCmp(dept_aliases[i], dept_alias)]
                   insertion_index == binary_search_by(cmps, 0, Len(dept_aliases))
               IN  IF insertion_index.tag = "Err"
                   THEN /\ dept_aliases' =
                               Insert(dept_aliases, insertion_index.index, dept_alias)
                        /\ departments' = MapInsert(departments, alias, new_department)
                        /\ deptCell' =
                               Append(deptCell, DepartmentNew(dept_name, department_count'))
                        /\ call' = Call("add_dept", None, alias, None, new_department, None)
                        /\ result' = Ok
                   ELSE /\ call' = Call("add_dept", None, alias, None, None, None)
                        /\ result' = Err("AddDept")
                        /\ UNCHANGED <<dept_aliases, departments, deptCell>>

\* ProgramData::add_dept(alias, dept_name)
add_dept(alias, dept_name) ==
    /\ Running
    /\ pre' = NoPre
    /\ UNCHANGED <<person_aliases, personnel, employee_count, personCell>>
    /\ IF alias \in DOMAIN departments
       THEN /\ call' = Call("add_dept", None, alias, None, None, None)
            /\ result' = Err("AddDept")
            /\ UNCHANGED <<dept_aliases, departments, department_count, deptCell>>
       ELSE /\ department_count' = department_count + 1
            /\ LET new_department == Len(deptCell) + 1
                   dept_alias == [alias |-> alias, pointer |-> new_department]
                   cmps == [i \in 1..Len(dept_aliases) |->
                               DepartmentAliasCmp(dept_aliases[i], dept_alias)]
                   insertion_index == binary_search_by(cmps, 0, Len(dept_aliases))
               IN  IF insertion_index.tag = "Err"
                   THEN /\ dept_aliases' =
                               Insert(dept_aliases, insertion_index.index, dept_alias)
                        /\ departments' = MapInsert(departments, alias, new_department)
                        /\ deptCell' =
                               Append(deptCell, DepartmentNew(dept_name, department_count'))
                        /\ call' = Call("add_dept", None, alias, None, new_department, None)
                        /\ result' = Ok
                   ELSE /\ call' = Call("add_dept", None, alias, None, None, None)
                        /\ result' = Err("AddDept")
                        /\ UNCHANGED <<dept_aliases, departments, deptCell>>

\* mutant of add_person: the alias is pushed onto the index before the
\* contains_key check
add_person_push_first(alias, person) ==
    /\ Running
    /\ pre' = NoPre
    /\ UNCHANGED <<dept_aliases, departments, department_count>>
    /\ LET person_ref == Len(personCell) + 1
           cell == Append(personCell, person)
           dept == person.department
           added == add_employee(deptCell[dept].employees, person_ref, cell, {})
       IN  /\ person_aliases' =
                  Append(person_aliases, [alias |-> alias, pointer |-> person_ref])
           /\ IF alias \in DOMAIN personnel
              THEN /\ call' = Call("add_person", alias, None, None, None, None)
                   /\ result' = Err("AddPerson")
                   /\ UNCHANGED <<personnel, employee_count, personCell, deptCell>>
              ELSE /\ call' = Call("add_person", alias, None, person_ref, dept, None)
                   /\ personCell' = cell
                   /\ personnel' = MapInsert(personnel, alias, person_ref)
                   /\ employee_count' = employee_count + 1
                   /\ IF added.tag = "Ok"
                      THEN /\ deptCell' = [deptCell EXCEPT ![dept].employees =
                                                               added.employees]
                           /\ result' = Ok
                      ELSE /\ result' = Err("Department(AddEmployee)")
                           /\ UNCHANGED deptCell

\* mutant of add_person: the count is incremented after the roster-add, which
\* returns early when it fails
add_person_count_after(alias, person) ==
    /\ Running
    /\ pre' = NoPre
    /\ UNCHANGED <<dept_aliases, departments, department_count>>
    /\ IF alias \in DOMAIN personnel
       THEN /\ call' = Call("add_person", alias, None, None, None, None)
            /\ result' = Err("AddPerson")
            /\ UNCHANGED <<person_aliases, personnel, employee_count, personCell,
                           deptCell>>
       ELSE /\ LET person_ref == Len(personCell) + 1
                   cell == Append(personCell, person)
                   dept == person.department
                   added == add_employee(deptCell[dept].employees, person_ref, cell, {})
              IN  /\ call' = Call("add_person", alias, None, person_ref, dept, None)
                  /\ personCell' = cell
                  /\ person_aliases' =
                         Append(person_aliases, [alias |-> alias, pointer |-> person_ref])
                  /\ personnel' = MapInsert(personnel, alias, person_ref)
                  /\ IF added.tag = "Ok"
                     THEN /\ deptCell' = [deptCell EXCEPT ![dept].employees =
                                                              added.employees]
                          /\ employee_count' = employee_count + 1
                          /\ result' = Ok
                     ELSE /\ result' = Err("Department(AddEmployee)")
                          /\ UNCHANGED <<deptCell, employee_count>>

\* ProgramData::add_person(alias, person)
add_person(alias, person) ==
    /\ Running
    /\ pre' = NoPre
    /\ UNCHANGED <<dept_aliases, departments, department_count>>
    /\ IF alias \in DOMAIN personnel
       THEN /\ call' = Call("add_person", alias, None, None, None, None)
            /\ result' = Err("AddPerson")
            /\ UNCHANGED <<person_aliases, personnel, employee_count, personCell,
                           deptCell>>
       ELSE /\ LET person_ref == Len(personCell) + 1
                   cell == Append(personCell, person)
                   dept == person.department
                   added == add_employee(deptCell[dept].employees, person_ref, cell, {})
              IN  /\ call' = Call("add_person", alias, None, person_ref, dept, None)
                  /\ personCell' = cell
                  /\ person_aliases' =
                         Append(person_aliases, [alias |-> alias, pointer |-> person_ref])
                  /\ personnel' = MapInsert(personnel, alias, person_ref)
                  /\ employee_count' = employee_count + 1
                  /\ IF added.tag = "Ok"
                     THEN /\ deptCell' = [deptCell EXCEPT ![dept].employees =
                                                              added.employees]
                          /\ result' = Ok
                     ELSE /\ result' = Err("Department(AddEmployee)")
                          /\ UNCHANGED deptCell

\* ProgramData::dept_list and ProgramData::employee_list: the alias indexes
\* as they are
dept_list == dept_aliases
employee_list == person_aliases

\* mutant of add_to_dept: the department is looked up before the person
add_to_dept_dept_first(person_alias, dept_alias, date, today) ==
    /\ Running
    /\ UNCHANGED <<dept_aliases, person_aliases, departments, personnel,
                   employee_count, department_count>>
    /\ IF dept_alias \notin DOMAIN departments
       THEN /\ call' = Call("add_to_dept", person_alias, dept_alias, None, None, None)
            /\ result' = Err("NoSuchDept")
            /\ pre' = NoPre
            /\ UNCHANGED <<deptCell, personCell>>
       ELSE IF person_alias \notin DOMAIN personnel
       THEN /\ call' = Call("add_to_dept", person_alias, dept_alias, None, None, None)
            /\ result' = Err("NoSuchPerson")
            /\ pre' = NoPre
            /\ UNCHANGED <<deptCell, personCell>>
       ELSE LET person == personnel[person_alias]
                department == departments[dept_alias]
                transfer_date == IF date # None THEN date ELSE today
                t == transfer(person, department, transfer_date)
            IN  /\ call' = Call("add_to_dept", person_alias, dept_alias, person,
                                department,
                                IF t.tag = "Ok" THEN transfer_date ELSE None)
                /\ result' = [tag |-> t.tag, err |-> t.err]
                /\ pre' = IF t.tag = "Ok"
                          THEN [set |-> TRUE, deptCell |-> deptCell,
                                personCell |-> personCell, mid |-> t.mid,
                                chained |-> pre.set /\ call.self = person]
                          ELSE NoPre
                /\ deptCell' = t.deptCell
                /\ personCell' = [personCell EXCEPT ![person] = t.person]

\* ProgramData::add_to_dept(person_alias, dept_alias, date); today is what
\* Local::today() answers when date is None.  transfer runs on
\* person.borrow_mut(): the Person cell stays mutably borrowed for the call.
add_to_dept(person_alias, dept_alias, date, today) ==
    /\ Running
    /\ UNCHANGED <<dept_aliases, person_aliases, departments, personnel,
                   employee_count, department_count>>
    /\ IF person_alias \notin DOMAIN personnel
       THEN /\ call' = Call("add_to_dept", person_alias, dept_alias, None, None, None)
            /\ result' = Err("NoSuchPerson")
            /\ pre' = NoPre
            /\ UNCHANGED <<deptCell, personCell>>
       ELSE IF dept_alias \notin DOMAIN departments
       THEN /\ call' = Call("add_to_dept", person_alias, dept_alias, None, None, None)
            /\ result' = Err("NoSuchDept")
            /\ pre' = NoPre
            /\ UNCHANGED <<deptCell, personCell>>
       ELSE LET person == personnel[person_alias]
                department == departments[dept_alias]
                transfer_date == IF date # None THEN date ELSE today
                t == transfer(person, department, transfer_date)
            IN  /\ call' = Call("add_to_dept", person_alias, dept_alias, person,
                                department,
                                IF t.tag = "Ok" THEN transfer_date ELSE None)
                /\ result' = [tag |-> t.tag, err |-> t.err]
                /\ pre' = IF t.tag = "Ok"
                          THEN [set |-> TRUE, deptCell |-> deptCell,
                                personCell |-> personCell, mid |-> t.mid,
                                chained |-> pre.set /\ call.self = person]
                          ELSE NoPre
                /\ deptCell' = t.deptCell
                /\ personCell' = [personCell EXCEPT ![person] = t.person]

\* the builders a caller can set up: every required field set, the
\* department one of the store's
Builders ==
    {[name_first |-> n[2], name_last |-> n[1], name_mid |-> m, doh |-> d, dept |-> h] :
        n \in Names, m \in MiddleNames, d \in HireDates, h \in 1..Len(deptCell)}

\* the builders tried with an alias: add_person returns before it reads the
\* person when the alias is in use, so one builder stands for all of them
BuildersFor(alias) ==
    IF alias \in DOMAIN personnel /\ Builders # {}
    THEN {CHOOSE b \in Builders : TRUE}
    ELSE Builders

\* the store has room for one more department / person, the person's history
\* for one more entry: the bounds of the exploration (the code has none)
RoomForDept(cap) == Len(deptCell) < cap
RoomForPerson(cap) == Len(personCell) < cap
RoomForEntry(person_alias) ==
    person_alias \in DOMAIN personnel
        => Len(personCell[personnel[person_alias]].dept_history) < MaxHistory

Next ==
    \/ \E alias \in DeptAliasSet, dept_name \in DeptNames :
          /\ alias \in DOMAIN departments \/ RoomForDept(MaxDepts)
          /\ add_dept(alias, dept_name)
    \/ \E alias \in PersonAliasSet : \E b \in BuildersFor(alias) :
          /\ alias \in DOMAIN personnel \/ RoomForPerson(MaxPeople)
          /\ build(b).tag = "Ok"
          /\ add_person(alias, build(b).person)
    \/ \E person_alias \in PersonAliasSet, dept_alias \in DeptAliasSet,
          date \in Dates \cup {None}, today \in Today :
          /\ RoomForEntry(person_alias)
          /\ add_to_dept(person_alias, dept_alias, date, today)

Spec == Init /\ [][Next]_vars

\* the same program with two people at most, whose middle names and hire
\* dates vary
BuildersWide ==
    {[name_first |-> n[2], name_last |-> n[1], name_mid |-> m, doh |-> d, dept |-> h] :
        n \in Names, m \in MiddleNamesWide, d \in HireDatesWide, h \in 1..Len(deptCell)}

BuildersWideFor(alias) ==
    IF alias \in DOMAIN personnel /\ BuildersWide # {}
    THEN {CHOOSE b \in BuildersWide : TRUE}
    ELSE BuildersWide

NextWide ==
    \/ \E alias \in DeptAliasSet, dept_name \in DeptNames :
          /\ alias \in DOMAIN departments \/ RoomForDept(MaxDepts)
          /\ add_dept(alias, dept_name)
    \/ \E alias \in PersonAliasSet : \E b \in BuildersWideFor(alias) :
          /\ alias \in DOMAIN personnel \/ RoomForPerson(MaxPeopleWide)
          /\ build(b).tag = "Ok"
          /\ add_person(alias, build(b).person)
    \/ \E person_alias \in PersonAliasSet, dept_alias \in DeptAliasSet,
          date \in Dates \cup {None}, today \in Today :
          /\ RoomForEntry(person_alias)
          /\ add_to_dept(person_alias, dept_alias, date, today)

SpecWide == Init /\ [][NextWide]_vars

\* the same program when only departments are created, from more aliases
NextDepts ==
    \E alias \in DeptAliasSetAlone, dept_name \in DeptNames :
        /\ alias \in DOMAIN departments \/ RoomForDept(MaxDeptsAlone)
        /\ add_dept(alias, dept_name)

SpecDepts == Init /\ [][NextDepts]_vars

\* a call of PersonBuilder::build on the builder b, from outside the store:
\* Ok(Person) or Err(the builder)
build_call(b) ==
    /\ Running
    /\ pre' = NoPre
    /\ UNCHANGED <<dept_aliases, person_aliases, departments, personnel,
                   employee_count, department_count, deptCell, personCell>>
    /\ LET built == build(b)
       IN  /\ call' = [Call("build", None, None, None, None, None)
                          EXCEPT !.builder = b, !.built = built.person]
           /\ result' = IF built.tag = "Ok" THEN Ok ELSE Err("PersonBuilder")

\* the builders a caller can be holding: each setter called or not
BuildersAny ==
    [name_first : {None} \cup {n[2] : n \in Names},
     name_last : {None} \cup {n[1] : n \in Names},
     name_mid : MiddleNamesWide,
     doh : {None} \cup HireDatesWide,
     dept : {None} \cup (1..Len(deptCell))]

\* the same store when departments are created and builders are built
NextBuild ==
    \/ \E alias \in DeptAliasSet, dept_name \in DeptNames :
          /\ alias \in DOMAIN departments \/ RoomForDept(MaxDepts)
          /\ add_dept(alias, dept_name)
    \/ \E b \in BuildersAny : build_call(b)

SpecBuild == Init /\ [][NextBuild]_vars

\* ------------------------------------------------------------------ shell
RECURSIVE sort_employees_from(_, _)
\* the loop of TextInterface::sort_employees from the k-th entry of
\* employee_list on, list being the (alias, name) pairs collected so far
sort_employees_from(list, k) ==
    IF k > Len(employee_list) THEN list
    ELSE LET employee == employee_list[k]
             name == personCell[employee.pointer].name
             cmps == [i \in 1..Len(list) |-> NameCmp(list[i][2], name)]
             search_result == binary_search_by(cmps, 0, Len(list))
         IN  sort_employees_from(
                 IF search_result.tag = "Err"
                 THEN Insert(list, search_result.index, <<employee.alias, name>>)
                 ELSE list,
                 k + 1)

\* TextInterface::sort_employees, which `list employees` prints
sort_employees == sort_employees_from(<<>>, 1)

\* ------------------------------------------------------------ vocabulary
DeptHandles == 1..Len(deptCell)
PersonHandles == 1..Len(personCell)
\* the Person cells the people map holds
Registered == {personnel[a] : a \in DOMAIN personnel}
\* the roster of the Department cell d in the Department heap cells
RosterIn(cells, d) == cells[d].employees
Roster(d) == RosterIn(deptCell, d)
\* the Person cell p is an entry of the roster of d
ListedIn(cells, p, d) == \E i \in 1..Len(RosterIn(cells, d)) : RosterIn(cells, d)[i] = p
Listed(p, d) == ListedIn(deptCell, p, d)
\* the departments whose roster lists p
RostersIn(cells, p) == {d \in 1..Len(cells) : ListedIn(cells, p, d)}
RostersOf(p) == RostersIn(deptCell, p)
\* the last call reached Person::transfer: both aliases were found
IsTransfer(c) == c.op = "add_to_dept" /\ c.self # None
AlreadyInDept == Err("Person(Transfer(AlreadyInDept))")
Fatal(e) == [tag |-> "Panic", err |-> e]

\* --------------------------------------------------------------- claims

\* C1: in every reachable state, every person registered in the people map
\* is listed in the roster of the department their current-department
\* pointer refers to.
C1_BidirectionalConsistency ==
    \A p \in Registered : Listed(p, personCell[p].department)

\* C2: when add_person fails because the roster-add fails, the store is as
\* before the call: person alias index, people map and employee count are
\* unchanged.
C2_CreatePersonAllOrNothing ==
    [][(call'.op = "add_person" /\ result' = Err("Department(AddEmployee)"))
        => /\ person_aliases' = person_aliases
           /\ personnel' = personnel
           /\ employee_count' = employee_count]_vars

\* C3: right after an add_person call that returned Ok, the created person
\* is listed in exactly one roster of the store, the roster of the
\* department given to the builder (the department of history[0] and of
\* the current-department pointer).
C3_CreatedInExactlyOneRoster ==
    (call.op = "add_person" /\ result = Ok)
    => /\ RostersOf(call.self) = {call.new}
       /\ personCell[call.self].department = call.new
       /\ personCell[call.self].dept_history[1].department = call.new

C3_Witness ==
    /\ call.op = "add_person" /\ result = Ok
    /\ Len(deptCell) = 2
    /\ \E d \in DeptHandles : d # call.new /\ Roster(d) # <<>>

\* C4: a transfer of P from Old to a different New with date d that returns
\* Ok leaves P out of Old's roster and in New's roster, P's history the
\* previous one with [New, d] appended, and P's pointer at New.
C4_TransferEffect ==
    (IsTransfer(call) /\ result = Ok /\ pre.set)
    => LET P == call.self
           Old == pre.personCell[P].department
           New == call.new
       IN  /\ ~Listed(P, Old)
           /\ Listed(P, New)
           /\ personCell[P].dept_history =
                  Append(pre.personCell[P].dept_history,
                         [department |-> New, date |-> call.date])
           /\ personCell[P].department = New

\* C5: a transfer to the department the person points to returns the
\* AlreadyInDept error value and changes no roster, no history and no
\* pointer.
C5_SameDeptRejected ==
    [][(IsTransfer(call') /\ call'.new = personCell[call'.self].department)
        => /\ result' = AlreadyInDept
           /\ deptCell' = deptCell
           /\ personCell' = personCell]_vars

C5_Witness ==
    /\ IsTransfer(call) /\ result = AlreadyInDept
    /\ Listed(call.self, call.new)
    /\ Len(Roster(call.new)) >= 2

C7_NoSilentContinuation ==
    [][(/\ IsTransfer(call')
        /\ call'.new # personCell[call'.self].department
        /\ ~Listed(call'.self, personCell[call'.self].department))
        => /\ result' = Fatal("NotListedInDept")
           /\ deptCell' = deptCell
           /\ personCell' = personCell]_vars

\* C8: when step 3 of a transfer (the insertion into the new roster) fails,
\* no person is left removed from the old roster, listed in no roster, with
\* the current-department pointer still naming the old department.
C8_NoPartialMigration ==
    [][(IsTransfer(call') /\ result' = Fatal("AlreadyInDept"))
        => LET Old == personCell[call'.self].department
           IN  \A p \in PersonHandles :
                  ~(/\ Listed(p, Old)
                    /\ RostersIn(deptCell', p) = {}
                    /\ personCell'[p].department = Old)]_vars

\* C9: a transfer of a registered person to a registered department other
\* than their current one returns Ok: it never ends in a fatal failure.
C9_TransferNeverFatal ==
    [][(IsTransfer(call') /\ call'.new # personCell[call'.self].department)
        => result' = Ok]_vars

\* C10: every roster is sorted by (last name, first name), in every state
\* add_person and add_to_dept calls lead to, failed calls included.
C10_RostersSorted ==
    \A d \in DeptHandles : \A i, j \in 1..Len(Roster(d)) :
        i < j => LET a == personCell[Roster(d)[i]].name
                     b == personCell[Roster(d)[j]].name
                 IN  a.last < b.last \/ (a.last = b.last /\ a.first <= b.first)

C10_Witness ==
    /\ IsTransfer(call) /\ result = Ok
    /\ \E d \in DeptHandles :
          /\ Len(Roster(d)) >= 2
          /\ call.new = d
          /\ personCell[Roster(d)[1]].name # personCell[Roster(d)[2]].name
    /\ \E p \in Registered : RostersOf(p) = {}

\* C11: in every reachable state no department roster holds the same Person
\* handle at two positions.
C11_NoDuplicateHandle ==
    \A d \in DeptHandles : \A i, j \in 1..Len(Roster(d)) :
        i # j => Roster(d)[i] # Roster(d)[j]

\* a transfer has just moved an entry into a roster that now holds two
C11_Witness ==
    /\ IsTransfer(call) /\ result = Ok
    /\ Len(Roster(call.new)) >= 2
    /\ \E p \in PersonHandles : Listed(p, call.new) /\ ~ListedIn(pre.deptCell, p, call.new)

\* C12: add_employee answers that the employee is already there only when the
\* roster holds an entry equal to the given person by the full equality of
\* Person (name, hire date, department, history); a person who only shares
\* last and first name with an entry is inserted.  Seen through add_person:
\* whenever it fails on the roster, the roster holds an entry equal to the
\* new person.
C12_RejectsOnlyEqual ==
    (call.op = "add_person" /\ result = Err("Department(AddEmployee)"))
        => \E i \in 1..Len(Roster(call.new)) :
              PersonEq(Roster(call.new)[i], call.self, {}, EqFuel) = "eq"

\* C13: whatever the order in which departments with distinct aliases were
\* created, dept_list answers them in ascending order of alias.
C13_DeptListSorted ==
    \A i, j \in 1..Len(dept_list) : i < j => dept_list[i].alias < dept_list[j].alias

\* three departments were created, none of them in the order of the aliases
C13_Witness ==
    /\ Len(dept_list) >= 3
    /\ \A i \in 1..(Len(dept_list) - 1) :
          dept_list[i].pointer > dept_list[i + 1].pointer
    /\ call.op = "add_dept" /\ result = Ok

\* C14: whatever the order in which people with distinct aliases were
\* created, employee_list answers them in ascending order of alias.
C14_EmployeeListSorted ==
    \A i, j \in 1..Len(employee_list) :
        i < j => employee_list[i].alias < employee_list[j].alias

\* C15: add_dept with an alias that is in use returns Err(AddDept) and leaves
\* the department count, the department alias index and the department map
\* as they were.
C15_DuplicateDeptRejected ==
    [][(call'.op = "add_dept" /\ call'.dept_alias \in DOMAIN departments)
        => /\ result' = Err("AddDept")
           /\ UNCHANGED <<department_count, dept_aliases, departments>>]_vars

\* the call just made was add_dept with the alias of a department the store
\* holds, every department and person of the exploration being there
C15_Witness ==
    /\ call.op = "add_dept" /\ call.new = None
    /\ call.dept_alias \in DOMAIN departments
    /\ department_count = MaxDepts /\ employee_count = MaxPeople

\* C16: add_person with an alias that is in use returns Err(AddPerson) and
\* leaves the employee count, the person alias index, the people map and
\* every roster as they were.
C16_DuplicatePersonRejected ==
    [][(call'.op = "add_person" /\ call'.alias \in DOMAIN personnel)
        => /\ result' = Err("AddPerson")
           /\ UNCHANGED <<employee_count, person_aliases, personnel>>
           /\ \A d \in DeptHandles : RosterIn(deptCell', d) = Roster(d)]_vars

\* the call just made was add_person with the alias of a person the store
\* holds, one roster being empty and another holding two people
C16_Witness ==
    /\ call.op = "add_person" /\ call.self = None
    /\ call.alias \in DOMAIN personnel
    /\ \E d \in DeptHandles : Roster(d) = <<>>
    /\ \E d \in DeptHandles : Len(Roster(d)) >= 2

\* C17: add_to_dept with a person alias the people map does not hold returns
\* Err(NoSuchPerson), whatever the department alias; with a person alias it
\* holds and a department alias the department map does not hold it returns
\* Err(NoSuchDept).  In both cases no roster, history, department pointer,
\* index, map or counter changes.
C17_UnknownAlias ==
    [][call'.op = "add_to_dept" =>
        /\ call'.alias \notin DOMAIN personnel =>
              /\ result' = Err("NoSuchPerson")
              /\ UNCHANGED <<deptCell, personCell, dept_aliases, person_aliases,
                             departments, personnel, employee_count, department_count>>
        /\ (call'.alias \in DOMAIN personnel /\ call'.dept_alias \notin DOMAIN departments) =>
              /\ result' = Err("NoSuchDept")
              /\ UNCHANGED <<deptCell, personCell, dept_aliases, person_aliases,
                             departments, personnel, employee_count, department_count>>]_vars

\* the call just made was add_to_dept with two aliases the store does not
\* hold, while it holds a department and a person
C17_Witness ==
    /\ call.op = "add_to_dept"
    /\ call.alias \notin DOMAIN personnel /\ call.dept_alias \notin DOMAIN departments
    /\ result = Err("NoSuchPerson")
    /\ personnel # <<>> /\ departments # <<>>

\* C18: department ids are unique and sequential.  The k-th department
\* created (the Department cell k) has id k, no two departments have the same
\* id, and the department count is the number of departments of the store:
\* a rejected add_dept has used up no id.
C18_SequentialIds ==
    /\ \A k \in DeptHandles : deptCell[k].id = k
    /\ \A a, b \in DeptHandles : a # b => deptCell[a].id # deptCell[b].id
    /\ department_count = Len(deptCell)
    /\ department_count = Cardinality(DOMAIN departments)

\* an add_dept call with an alias in use has just been rejected, the store
\* holding three departments at least
C18_Witness ==
    /\ call.op = "add_dept" /\ call.new = None /\ result = Err("AddDept")
    /\ Len(deptCell) >= 3

\* C19: the department map and the department alias index agree in every
\* reachable state: they hold the same aliases, the index holds each alias
\* once, and under each alias both hold the same Department cell.
C19_MapIndexAgree ==
    /\ {dept_aliases[i].alias : i \in 1..Len(dept_aliases)} = DOMAIN departments
    /\ \A i, j \in 1..Len(dept_aliases) :
          i # j => dept_aliases[i].alias # dept_aliases[j].alias
    /\ \A i \in 1..Len(dept_aliases) :
          departments[dept_aliases[i].alias] = dept_aliases[i].pointer

\* three departments at least, created in an order that is not the order of
\* their aliases, and a rejected add_dept after them
C19_Witness ==
    /\ Len(dept_aliases) >= 3
    /\ \E i \in 1..(Len(dept_aliases) - 1) :
          dept_aliases[i].pointer > dept_aliases[i + 1].pointer
    /\ call.op = "add_dept" /\ result = Err("AddDept")

\* C20: a person's history only grows at its end.  Across every step the
\* history a person had is a prefix of the history they have after it, and a
\* person enters the store with the one entry {the department given to the
\* builder, the date of hire}, which therefore stays the first.
C20_HistoryAppendOnly ==
    [][/\ \A p \in PersonHandles :
            LET h == personCell[p].dept_history
                later == personCell'[p].dept_history
            IN  Len(h) <= Len(later) /\ SubSeq(later, 1, Len(h)) = h
       /\ \A p \in (1..Len(personCell')) \ PersonHandles :
            personCell'[p].dept_history =
                <<[department |-> call'.new, date |-> personCell'[p].date_of_hire]>>]_vars

\* a person has just been transferred for the second time, on a date that is
\* not their date of hire
C20_Witness ==
    /\ IsTransfer(call) /\ result = Ok
    /\ Len(personCell[call.self].dept_history) >= 3
    /\ call.date # personCell[call.self].date_of_hire
    /\ personCell[call.self].dept_history[1].date = personCell[call.self].date_of_hire

\* C21: a transfer removes the entry from the old roster before it inserts it
\* into the new one and before it updates the pointer and the history, so a
\* Person handle is listed in one roster at most: in every reachable state,
\* the states a transfer panics in included, and in the Department heap as
\* it is inside a transfer between the removal and the insertion, where the
\* entry moved is in no roster.
C21_AtMostOneRoster ==
    /\ \A p \in PersonHandles : Cardinality(RostersOf(p)) <= 1
    /\ pre.set =>
          /\ \A p \in 1..Len(pre.personCell) : Cardinality(RostersIn(pre.mid, p)) <= 1
          /\ \E p \in 1..Len(pre.personCell) :
                /\ RostersIn(pre.deptCell, p) = {pre.personCell[call.self].department}
                /\ RostersIn(pre.mid, p) = {}
                /\ RostersOf(p) = {call.new}

\* a transfer has returned Ok and moved an entry into a roster that lists
\* another person too
C21_Witness ==
    /\ pre.set /\ IsTransfer(call) /\ result = Ok
    /\ Len(RosterIn(pre.mid, call.new)) >= 1
    /\ Len(Roster(call.new)) = Len(RosterIn(pre.mid, call.new)) + 1

\* C22: PersonBuilder::build returns a Person if and only if first name, last
\* name, date of hire and department have been set, the middle name set or
\* not; the Person it returns points to the department given and its history
\* is the one entry {that department, date of hire}.
C22_BuildIffComplete ==
    call.op = "build" =>
        LET b == call.builder
        IN  /\ result = Ok <=> /\ b.name_first # None
                               /\ b.name_last # None
                               /\ b.doh # None
                               /\ b.dept # None
            /\ result = Ok =>
                  /\ call.built.department = b.dept
                  /\ call.built.date_of_hire = b.doh
                  /\ call.built.dept_history = <<[department |-> b.dept, date |-> b.doh]>>

\* a builder with no middle name has just been built into a Person of the
\* second department
C22_Witness ==
    /\ call.op = "build" /\ result = Ok
    /\ call.builder.name_mid = None
    /\ call.builder.dept = 2

\* C23: department aliases and person aliases are separate namespaces.
\* add_dept with an alias that no department has and a person has returns
\* Ok, and add_person with an alias that no person has and a department has
\* returns Ok.
C23_IndependentNamespaces ==
    [][/\ (/\ call'.op = "add_dept"
           /\ call'.dept_alias \notin DOMAIN departments
           /\ call'.dept_alias \in DOMAIN personnel) => result' = Ok
       /\ (/\ call'.op = "add_person"
           /\ call'.alias \notin DOMAIN personnel
           /\ call'.alias \in DOMAIN departments) => result' = Ok]_vars

\* C24: add_to_dept returns the AlreadyInDept error value only when the
\* target is the Department cell the person points to.  A transfer to
\* another department of the store is never refused as a transfer to the
\* same department, also when the two have the same name and equal rosters.
C24_DistinctDeptsNeverSame ==
    [][(IsTransfer(call') /\ call'.new # personCell[call'.self].department)
        => result' # AlreadyInDept]_vars

\* the last call was a transfer between two departments of the same name
\* whose rosters, one entry each, are equal under Vec's ==, and it was not
\* refused (it ended before it wrote anything)
C24_Witness ==
    /\ IsTransfer(call) /\ result # AlreadyInDept
    /\ LET old == personCell[call.self].department
       IN  /\ call.new # old
           /\ deptCell[old].name = deptCell[call.new].name
           /\ Len(Roster(old)) >= 1
           /\ Len(Roster(old)) = Len(Roster(call.new))
           /\ Roster(old) # Roster(call.new)
           /\ EmployeesEq(Roster(old), Roster(call.new), 1, {}, EqFuel) = "eq"

\* C25: a transfer of P changes nothing that belongs to another person.  For
\* every registered person Q other than P, the rosters that list Q, Q's
\* department pointer and Q's history are after the call what they were
\* before it.
C25_TransferFrame ==
    [][IsTransfer(call') =>
        \A q \in Registered \ {call'.self} :
            /\ RostersIn(deptCell', q) = RostersOf(q)
            /\ personCell'[q].department = personCell[q].department
            /\ personCell'[q].dept_history = personCell[q].dept_history]_vars

C27_PeopleBookkeepingAgrees ==
    /\ [](/\ {person_aliases[i].alias : i \in 1..Len(person_aliases)} = DOMAIN personnel
          /\ \A i, j \in 1..Len(person_aliases) :
                i # j => person_aliases[i].alias # person_aliases[j].alias
          /\ \A i \in 1..Len(person_aliases) :
                personnel[person_aliases[i].alias] = person_aliases[i].pointer
          /\ employee_count = Len(person_aliases)
          /\ employee_count = Cardinality(DOMAIN personnel))
    /\ [][(call'.op = "add_person" /\ result' = Ok) =>
            /\ call'.alias \notin DOMAIN personnel
            /\ DOMAIN personnel' = DOMAIN personnel \cup {call'.alias}
            /\ Len(person_aliases') = Len(person_aliases) + 1
            /\ employee_count' = employee_count + 1]_vars

\* the store holds a person whose add_person failed on the roster, and another
\* person has just been added with Ok
C27_Witness ==
    /\ call.op = "add_person" /\ result = Ok
    /\ \E p \in Registered \ {call.self} : RostersOf(p) = {}
    /\ employee_count >= 3

\* C28: add_dept touches department bookkeeping only.  A call that returns
\* Ok adds one Department cell, with an empty roster, and leaves every roster
\* there was, every person's pointer and history, the person alias index,
\* the people map and the employee count as they were.
C28_AddDeptFrame ==
    [][(call'.op = "add_dept" /\ result' = Ok) =>
        /\ Len(deptCell') = Len(deptCell) + 1
        /\ call'.new = Len(deptCell')
        /\ RosterIn(deptCell', call'.new) = <<>>
        /\ \A d \in DeptHandles : RosterIn(deptCell', d) = Roster(d)
        /\ Len(personCell') = Len(personCell)
        /\ \A p \in PersonHandles :
              /\ personCell'[p].department = personCell[p].department
              /\ personCell'[p].dept_history = personCell[p].dept_history
        /\ UNCHANGED <<person_aliases, personnel, employee_count>>]_vars

\* a department has just been created in a store that holds a roster of two
\* people and a person whom no roster lists
C28_Witness ==
    /\ call.op = "add_dept" /\ result = Ok
    /\ \E d \in DeptHandles : Len(Roster(d)) >= 2
    /\ \E p \in Registered : RostersOf(p) = {}

\* C29: the listing of the shell, sort_employees, holds one entry for every
\* alias of the person alias index and no other, in the order of (last name,
\* first name): no registered employee is missing from it.
C29_ListingComplete ==
    /\ \A i \in 1..Len(employee_list) :
          Cardinality({k \in 1..Len(sort_employees) :
                          sort_employees[k][1] = employee_list[i].alias}) = 1
    /\ Len(sort_employees) = Len(employee_list)
    /\ \A i, j \in 1..Len(sort_employees) :
          i < j => NameCmp(sort_employees[i][2], sort_employees[j][2]) # "Greater"

====
